---- MODULE Spec2Model ----
(***************************************************************************)
(* Model of fish-matrix-bot: the repository-event watcher                  *)
(* (GitHub.watchForEvents, src/src/github.ts) and its consumer             *)
(* (MatrixBot.monitorGitHub, src/src/index.ts).                            *)
(*                                                                         *)
(* The watcher is an async generator.  Its suspension points are the       *)
(* delay at the top of the loop, the listRepoEvents call and the yield;    *)
(* the code between two suspension points runs as one step.                *)
(***************************************************************************)
EXTENDS Integers, Sequences, FiniteSets, TLC

\* ------------------------------------------------------------------ bounds
\* Event timestamps (milliseconds since the Unix epoch) range over 0..MaxTime.
MaxTime == 2
\* A page of the events feed holds at most MaxPage events.
MaxPage == 2
\* The count of consecutive failed fetches saturates at MaxStreak.
MaxStreak == 2

\* A text given to extractIssueNumbers is made of at most MaxTokens tokens.
MaxTokens == 4

\* A number in a text has at most MaxDigits digits (it is exact as a number
\* of JavaScript and as an integer of the model).
MaxDigits == 9
\* makeList: the most lines of a list and the most characters of a line.
MaxLines == 3
MaxLineLen == 1
\* The most characters of a text the forge supplies.
MaxTextLen == 1

\* ------------------------------------------------------------ input domains
\* `new Date()` taken by monitorGitHub when the watcher is started.
StartEpoch == 0

\* The value of an absent header / an undefined variable.
Absent == "absent"

\* (type, payload.action) of the events the feed may return.
EventKinds ==
    { [type |-> "IssuesEvent",      action |-> "opened"],
      [type |-> "PullRequestEvent", action |-> "labeled"],
      [type |-> "WatchEvent",       action |-> "started"] }

\* An event of the feed; created_at is already the value of
\* new Date(event.created_at).getTime().  The record is the event's identity.
Events ==
    { [created_at |-> t, type |-> k.type, action |-> k.action] :
        t \in 0..MaxTime, k \in EventKinds }

\* The pages listRepoEvents may return: events in any order, none twice.
Pages ==
    { p \in UNION { [1..n -> Events] : n \in 0..MaxPage } :
        \A i, j \in DOMAIN p : i # j => p[i] # p[j] }

\* Values of the etag response header.
Etags == { Absent, "W/1", "W/2" }

\* Values of the x-poll-interval response header: a string of decimal digits
\* (as the sequence of its digits), the empty string, or no header at all.
PollHeaders == { Absent, << >>, <<3, 0>> }

\* Statuses of a failed request other than 304; 0 stands for a transport
\* failure, where error.status is undefined.
ErrorStatuses == { 0, 403, 500 }

\* The argument eventsOfInterest that monitorGitHub passes.
EventsOfInterest == << "IssuesEvent", "PullRequestEvent" >>

VARIABLES
    pc,            \* where the generator and its consumer are suspended
    epoch,         \* watchForEvents: epoch (as epoch.getTime())
    latest,        \* watchForEvents: latest
    etag,          \* watchForEvents: etag
    pollInterval,  \* watchForEvents: pollInterval
    batch,         \* watchForEvents: batch of the current iteration
    events,        \* watchForEvents: outcome of the fetch of the current iteration
    toSend,        \* monitorGitHub: the lines handed to sendHtmlNotice
    slept,         \* seconds the delay of the current iteration lasted
    epochAtStart,  \* the watermark when the current iteration started
    fetched,       \* observer: a fetch has been made
    everOk,        \* observer: a fetch has succeeded
    advice,        \* observer: x-poll-interval of the most recent successful fetch
    okEtag,        \* observer: etag of the most recent successful fetch
    failures,      \* observer: consecutive failed fetches, saturating at MaxStreak
    emitted,       \* observer: events of the batches yielded so far
    due,           \* observer: watched events that were above the watermark when fetched
    missed,        \* observer: watched events after StartEpoch fetched and never yielded
    xpc,           \* extractIssueNumbers: "scan" in the while loop, "done" returned
    input,         \* extractIssueNumbers: input, as the sequence of its characters
    lastIndex,     \* extractIssueNumbers: regex.lastIndex
    seen,          \* extractIssueNumbers: seen
    results,       \* extractIssueNumbers: results
    matchedAt,     \* observer: match.index of the matches found so far
    hpc,           \* messageHandler: "idle", "whoami", "lookup", "send" or "done"
    roomEvent,     \* messageHandler: event
    issueNumbers,  \* linkGitHubIssues: issueNumbers
    idx,           \* linkGitHubIssues: position of the for loop in issueNumbers
    githubLinks,   \* linkGitHubIssues: githubLinks
    reply,         \* linkGitHubIssues: toSend as handed to sendHtmlNotice, or << >>
    issue,         \* mapGitHubIssue: issue of the most recent call
    outcomes,      \* observer: number and status of the calls of mapGitHubIssue
    rpc,           \* makeList: "idle", "called" or "returned"
    style,         \* makeList: messageType
    listLines,     \* makeList: lines
    rendered,      \* makeList: the value returned
    epc,           \* line template: "idle", "called" or "returned"
    via,           \* line template: "link" (linkGitHubIssues) or "watcher" (monitorGitHub)
    forge,         \* line template: login, title and html_url as the forge sent them
    composed       \* line template: the line

programVars == << pc, epoch, latest, etag, pollInterval, batch, events, toSend,
                  slept, epochAtStart >>
pollObservers == << fetched, everOk, advice, okEtag, failures >>
logObservers == << emitted, due, missed >>
extractVars == << xpc, input, lastIndex, seen, results, matchedAt >>
handlerVars == << hpc, roomEvent, issueNumbers, idx, githubLinks, reply, issue,
                  outcomes >>
renderVars == << rpc, style, listLines, rendered >>
composeVars == << epc, via, forge, composed >>
botVars == << extractVars, handlerVars, renderVars, composeVars >>
vars == << pc, epoch, latest, etag, pollInterval, batch, events, toSend,
           slept, epochAtStart, fetched, everOk, advice, okEtag, failures,
           emitted, due, missed, extractVars, handlerVars, renderVars,
           composeVars >>

\* ----------------------------------------------------------------- helpers
Max(a, b) == IF a >= b THEN a ELSE b

Range(s) == { s[i] : i \in DOMAIN s }

\* parseInt of a string of decimal digits.
RECURSIVE parseInt(_)
parseInt(s) ==
    IF Len(s) = 0 THEN 0
    ELSE 10 * parseInt(SubSeq(s, 1, Len(s) - 1)) + s[Len(s)]

\* const watchTypes = new Set(eventsOfInterest)
watchTypes == Range(EventsOfInterest)

\* --------------------------------------------------- the body of one iteration
\* Mutant of AdvanceLatest: latest follows the event being visited.
AdvanceLatestToEvent(lat, t) == t

\* latest = Math.max(latest, eventDate.getTime())
AdvanceLatest(lat, t) == Max(lat, t)

\* Mutant of AlreadyHandled: an event at the watermark counts as new.
AlreadyHandledStrict(t, ep) == t < ep

\* if (eventDate <= epoch) continue
AlreadyHandled(t, ep) == t <= ep

\* Mutant of IsWatched: only the first type of interest is kept.
IsWatchedFirstOnly(ev) == ev.type = EventsOfInterest[1]

\* watchTypes.has(event.type)
IsWatched(ev) == ev.type \in watchTypes

\* Mutant of ScanPage: an event is compared with the running maximum and
\* not with the epoch of the start of the iteration.
RECURSIVE ScanPageAgainstLatest(_, _, _, _, _)
ScanPageAgainstLatest(data, i, ep, lat, b) ==
    IF i > Len(data) THEN [latest |-> lat, batch |-> b]
    ELSE LET event == data[i]
             lat2  == AdvanceLatest(lat, event.created_at)
         IN  IF AlreadyHandled(event.created_at, lat)
                THEN ScanPageAgainstLatest(data, i + 1, ep, lat2, b)
             ELSE IF ~IsWatched(event)
                THEN ScanPageAgainstLatest(data, i + 1, ep, lat2, b)
             ELSE ScanPageAgainstLatest(data, i + 1, ep, lat2, Append(b, event))

\* Mutant of ScanPage: a kept event is put in front of the batch.
RECURSIVE ScanPagePrepending(_, _, _, _, _)
ScanPagePrepending(data, i, ep, lat, b) ==
    IF i > Len(data) THEN [latest |-> lat, batch |-> b]
    ELSE LET event == data[i]
             lat2  == AdvanceLatest(lat, event.created_at)
         IN  IF AlreadyHandled(event.created_at, ep)
                THEN ScanPagePrepending(data, i + 1, ep, lat2, b)
             ELSE IF ~IsWatched(event)
                THEN ScanPagePrepending(data, i + 1, ep, lat2, b)
             ELSE ScanPagePrepending(data, i + 1, ep, lat2, << event >> \o b)

\* for (const event of events.data) { ... }: the values of latest and batch
\* after the events from index i on have been visited.
RECURSIVE ScanPage(_, _, _, _, _)
ScanPage(data, i, ep, lat, b) ==
    IF i > Len(data) THEN [latest |-> lat, batch |-> b]
    ELSE LET event == data[i]
             lat2  == AdvanceLatest(lat, event.created_at)
         IN  IF AlreadyHandled(event.created_at, ep)
                THEN ScanPage(data, i + 1, ep, lat2, b)
             ELSE IF ~IsWatched(event)
                THEN ScanPage(data, i + 1, ep, lat2, b)
             ELSE ScanPage(data, i + 1, ep, lat2, Append(b, event))

\* Mutant of NewEpoch: the epoch stays where monitorGitHub set it.
NewEpochUnmoved(lat) == StartEpoch

\* Mutant of NewEpoch: the epoch is taken from the clock, which is ahead of
\* every event of the feed.
NewEpochFromClock(lat) == MaxTime

\* epoch = new Date(latest)
NewEpoch(lat) == lat

\* Mutant of ResultEtag: a response without etag keeps the previous token.
ResultEtagIfPresent(result) ==
    IF result.etag # Absent THEN result.etag ELSE result.ifNoneMatch

\* etag = result.headers.etag
ResultEtag(result) == result.etag

\* if (events.headers["x-poll-interval"]) parseInt(...) else 60:
\* an absent header and an empty string are falsy.
NextPollInterval(header) ==
    IF header # Absent /\ header # << >> THEN parseInt(header) ELSE 60

\* Mutant of ShouldYield: every batch is yielded.
ShouldYieldAlways(b) == TRUE

\* if (batch.length > 0) yield batch
ShouldYield(b) == Len(b) > 0

\* `events` before the fetch of an iteration has been answered.
NoEvents == [kind |-> "none"]

\* ------------------------------------------------------------------- Init
\* watchForEvents has been called and has not run yet.
WatcherInit ==
    /\ pc = "delay"
    /\ epoch = StartEpoch
    /\ latest = StartEpoch
    /\ etag = Absent
    /\ pollInterval = 0
    /\ batch = << >>
    /\ events = NoEvents
    /\ toSend = << >>
    /\ slept = 0
    /\ epochAtStart = StartEpoch
    /\ fetched = FALSE
    /\ everOk = FALSE
    /\ advice = Absent
    /\ okEtag = Absent
    /\ failures = 0
    /\ emitted = {}
    /\ due = {}
    /\ missed = {}

\* extractIssueNumbers is not running.
ExtractIdle ==
    /\ xpc = "idle"
    /\ input = << >>
    /\ lastIndex = 0
    /\ seen = {}
    /\ results = << >>
    /\ matchedAt = << >>

\* No room message has been received.
HandlerIdle ==
    /\ hpc = "idle"
    /\ roomEvent = [content |-> FALSE, sender |-> Absent, body |-> << >>]
    /\ issueNumbers = << >>
    /\ idx = 0
    /\ githubLinks = << >>
    /\ reply = << >>
    /\ issue = [kind |-> "none"]
    /\ outcomes = << >>

\* makeList is not running.
RenderIdle ==
    /\ rpc = "idle"
    /\ style = "html"
    /\ listLines = << >>
    /\ rendered = << >>

\* No line is being put together.
ComposeIdle ==
    /\ epc = "idle"
    /\ via = "link"
    /\ forge = [login |-> << >>, title |-> << >>, html_url |-> << >>]
    /\ composed = << >>

Init == WatcherInit /\ ExtractIdle /\ HandlerIdle /\ RenderIdle /\ ComposeIdle

\* ---------------------------------------------------------------- watcher
\* await delay(pollInterval * 1000) at the top of a new iteration.
Sleep ==
    /\ pc = "delay"
    /\ pc' = "fetch"
    /\ slept' = pollInterval
    /\ epochAtStart' = epoch
    /\ batch' = << >>
    /\ events' = NoEvents
    /\ UNCHANGED << epoch, latest, etag, pollInterval, toSend >>

\* listRepoEvents answers 200 with page `data` and headers etag `tag` and
\* x-poll-interval `poll`: the rest of the iteration, up to the yield or to
\* the delay of the next iteration.
FetchOk(data, tag, poll) ==
    /\ pc = "fetch"
    /\ LET result == [kind |-> "ok", ifNoneMatch |-> etag, data |-> data,
                      etag |-> tag, poll |-> poll]
           scan   == ScanPage(data, 1, epoch, latest, << >>)
       IN  /\ events' = result
           /\ etag' = ResultEtag(result)
           /\ pollInterval' = NextPollInterval(poll)
           /\ latest' = scan.latest
           /\ batch' = scan.batch
           /\ epoch' = NewEpoch(scan.latest)
           /\ pc' = IF ShouldYield(scan.batch) THEN "yield" ELSE "delay"
    /\ UNCHANGED << toSend, slept, epochAtStart >>

\* Mutant of FetchUnchanged: a 304 restarts the epoch from the clock.
FetchUnchangedMovesEpoch ==
    /\ pc = "fetch"
    /\ events' = [kind |-> "unchanged", ifNoneMatch |-> etag, status |-> 304]
    /\ pc' = "delay"
    /\ epoch' = MaxTime
    /\ latest' = MaxTime
    /\ UNCHANGED << etag, pollInterval, batch, toSend, slept, epochAtStart >>

\* listRepoEvents throws with status 304: return null, continue.
FetchUnchanged ==
    /\ pc = "fetch"
    /\ events' = [kind |-> "unchanged", ifNoneMatch |-> etag, status |-> 304]
    /\ pc' = "delay"
    /\ UNCHANGED << epoch, latest, etag, pollInterval, batch, toSend, slept,
                    epochAtStart >>

\* Mutant of FetchError: a failure without a status is thrown on, which ends
\* the generator.
FetchErrorThrownOn(status) ==
    /\ pc = "fetch"
    /\ events' = [kind |-> "error", ifNoneMatch |-> etag, status |-> status]
    /\ pc' = IF status = 0 THEN "done" ELSE "delay"
    /\ UNCHANGED << epoch, latest, etag, pollInterval, batch, toSend, slept,
                    epochAtStart >>

\* listRepoEvents throws with another status: warn, return null, continue.
FetchError(status) ==
    /\ pc = "fetch"
    /\ events' = [kind |-> "error", ifNoneMatch |-> etag, status |-> status]
    /\ pc' = "delay"
    /\ UNCHANGED << epoch, latest, etag, pollInterval, batch, toSend, slept,
                    epochAtStart >>

\* --------------------------------------------------------------- consumer
\* Mutant of HandledActions: a labeled event is announced as well.
HandledActionsAndLabeled == { "opened", "closed", "reopened", "labeled" }

\* ["opened", "closed", "reopened"]
HandledActions == { "opened", "closed", "reopened" }

\* The body of `for (const event of batch)`: one line per announced event.
RECURSIVE BatchLines(_, _, _)
BatchLines(b, i, lines) ==
    IF i > Len(b) THEN lines
    ELSE LET event == b[i]
         IN  IF event.type = "IssuesEvent" \/ event.type = "PullRequestEvent"
                THEN IF event.action \notin HandledActions
                        THEN BatchLines(b, i + 1, lines)
                        ELSE BatchLines(b, i + 1, Append(lines, event))
                ELSE BatchLines(b, i + 1, lines)

\* The consumer receives the yielded batch.  No event of it is announced:
\* `continue`, which resumes the generator after its yield.
ConsumeNothing ==
    /\ pc = "yield"
    /\ Len(BatchLines(batch, 1, << >>)) = 0
    /\ pc' = "delay"
    /\ UNCHANGED << epoch, latest, etag, pollInterval, batch, events, toSend,
                    slept, epochAtStart >>

\* Mutant of ConsumeSend: the send is not awaited and the generator is
\* resumed at once.
ConsumeSendNotAwaited ==
    /\ pc = "yield"
    /\ Len(BatchLines(batch, 1, << >>)) # 0
    /\ toSend' = BatchLines(batch, 1, << >>)
    /\ pc' = "delay"
    /\ UNCHANGED << epoch, latest, etag, pollInterval, batch, events, slept,
                    epochAtStart >>

\* The consumer receives the yielded batch and calls sendHtmlNotice.
ConsumeSend ==
    /\ pc = "yield"
    /\ Len(BatchLines(batch, 1, << >>)) # 0
    /\ toSend' = BatchLines(batch, 1, << >>)
    /\ pc' = "send"
    /\ UNCHANGED << epoch, latest, etag, pollInterval, batch, events, slept,
                    epochAtStart >>

\* sendHtmlNotice resolves: the body of the for-await loop ends, which
\* resumes the generator after its yield.
SendResolves ==
    /\ pc = "send"
    /\ pc' = "delay"
    /\ toSend' = << >>
    /\ UNCHANGED << epoch, latest, etag, pollInterval, batch, events, slept,
                    epochAtStart >>

\* sendHtmlNotice rejects: the exception leaves the for-await loop, which
\* closes the generator.
SendRejects ==
    /\ pc = "send"
    /\ pc' = "done"
    /\ toSend' = << >>
    /\ UNCHANGED << epoch, latest, etag, pollInterval, batch, events, slept,
                    epochAtStart >>

\* -------------------------------------------------------------- observers
\* What the fetch of this step was answered with, for the claims about the
\* caching token and the pacing.
ObserveOk(tag, poll) ==
    /\ fetched' = TRUE
    /\ everOk' = TRUE
    /\ advice' = poll
    /\ okEtag' = tag
    /\ failures' = 0

ObserveUnchanged ==
    /\ fetched' = TRUE
    /\ UNCHANGED << everOk, advice, okEtag, failures >>

ObserveError ==
    /\ fetched' = TRUE
    /\ failures' = IF failures < MaxStreak THEN failures + 1 ELSE failures
    /\ UNCHANGED << everOk, advice, okEtag >>

\* What has been fetched and what has been yielded, for the claims about
\* delivery.
ObservePage(data) ==
    LET wanted == { e \in Range(data) : e.type \in Range(EventsOfInterest) }
    IN  /\ emitted' = IF pc' = "yield" THEN emitted \cup Range(batch') ELSE emitted
        /\ due' = due \cup { e \in wanted : e.created_at > epoch }
        /\ missed' = (missed \cup { e \in wanted : e.created_at > StartEpoch })
                        \ emitted'

\* ---------------------------------------------------------- specifications
\* The watcher and its consumer, observed for caching and pacing.
Next ==
    \/ Sleep /\ UNCHANGED pollObservers /\ UNCHANGED logObservers /\ UNCHANGED botVars
    \/ /\ pc = "fetch"
       /\ \E data \in Pages, tag \in Etags, poll \in PollHeaders :
             FetchOk(data, tag, poll) /\ ObserveOk(tag, poll)
       /\ UNCHANGED logObservers /\ UNCHANGED botVars
    \/ FetchUnchanged /\ ObserveUnchanged /\ UNCHANGED logObservers /\ UNCHANGED botVars
    \/ \E status \in ErrorStatuses :
          FetchError(status) /\ ObserveError /\ UNCHANGED logObservers /\ UNCHANGED botVars
    \/ ConsumeNothing /\ UNCHANGED pollObservers /\ UNCHANGED logObservers /\ UNCHANGED botVars
    \/ ConsumeSend /\ UNCHANGED pollObservers /\ UNCHANGED logObservers /\ UNCHANGED botVars
    \/ SendResolves /\ UNCHANGED pollObservers /\ UNCHANGED logObservers /\ UNCHANGED botVars
    \/ SendRejects /\ UNCHANGED pollObservers /\ UNCHANGED logObservers /\ UNCHANGED botVars

Spec == Init /\ [][Next]_vars

\* The watcher and its consumer, observed for delivery.  The batch and the
\* watermark do not depend on the response headers, which are held fixed.
NextLog ==
    \/ Sleep /\ UNCHANGED pollObservers /\ UNCHANGED botVars /\ UNCHANGED logObservers
    \/ /\ pc = "fetch"
       /\ \E data \in Pages : FetchOk(data, "W/1", Absent) /\ ObservePage(data)
       /\ UNCHANGED pollObservers /\ UNCHANGED botVars
    \/ FetchUnchanged /\ UNCHANGED pollObservers /\ UNCHANGED botVars /\ UNCHANGED logObservers
    \/ \E status \in ErrorStatuses :
          FetchError(status) /\ UNCHANGED pollObservers /\ UNCHANGED botVars /\ UNCHANGED logObservers
    \/ ConsumeNothing /\ UNCHANGED pollObservers /\ UNCHANGED botVars /\ UNCHANGED logObservers
    \/ ConsumeSend /\ UNCHANGED pollObservers /\ UNCHANGED botVars /\ UNCHANGED logObservers
    \/ SendResolves /\ UNCHANGED pollObservers /\ UNCHANGED botVars /\ UNCHANGED logObservers
    \/ SendRejects /\ UNCHANGED pollObservers /\ UNCHANGED botVars /\ UNCHANGED logObservers

SpecLog == Init /\ [][NextLog]_vars

\* ================================================== extractIssueNumbers
\* Characters are one-character strings.
DigitChars == { "0", "1", "2", "3", "4", "5", "6", "7", "8", "9" }

\* \w of the regular expression.
WordChars == DigitChars \cup { "a", "b", "c", "_" }

\* The pieces the texts of the model are made of.
TextTokens ==
    { << "#" >>, << "1", "2" >>, << "1", "2", "3" >>, << "0", "1", "2", "3" >>,
      << "0", "0", "0" >>, << "a" >>, << " " >>, << "\n" >>, << "." >> }

RECURSIVE Flatten(_)
Flatten(ts) == IF Len(ts) = 0 THEN << >> ELSE Head(ts) \o Flatten(Tail(ts))

\* The value of a decimal digit.
DigitValue(c) ==
    CASE c = "0" -> 0 [] c = "1" -> 1 [] c = "2" -> 2 [] c = "3" -> 3
      [] c = "4" -> 4 [] c = "5" -> 5 [] c = "6" -> 6 [] c = "7" -> 7
      [] c = "8" -> 8 [] c = "9" -> 9

\* parseInt(match[1]): match[1] is a string of decimal digits.
ParseDigits(cs) == parseInt([i \in DOMAIN cs |-> DigitValue(cs[i])])

\* \b at offset k of s, between the characters s[k] and s[k + 1] (one-based).
WordBoundary(s, k) ==
    LET before == k >= 1 /\ s[k] \in WordChars
        after  == k < Len(s) /\ s[k + 1] \in WordChars
    IN  before # after

\* (?<=(?:\b| |^|\n)) at offset k of s.
LookBehind(s, k) ==
    \/ WordBoundary(s, k)
    \/ k >= 1 /\ s[k] = " "
    \/ k = 0
    \/ k >= 1 /\ s[k] = "\n"

\* The number of digits of s from offset k on.
RECURSIVE DigitRun(_, _)
DigitRun(s, k) ==
    IF k < Len(s) /\ s[k + 1] \in DigitChars THEN 1 + DigitRun(s, k + 1) ELSE 0

\* The texts extractIssueNumbers is given: no number in them has more than
\* MaxDigits digits.
Texts ==
    { s \in { Flatten(ts) :
                ts \in UNION { [1..n -> TextTokens] : n \in 0..MaxTokens } } :
        \A k \in 0..Len(s) : DigitRun(s, k) <= MaxDigits }

\* Mutant of TrailingBoundary: the digits may be followed by anything.
TrailingBoundaryAnywhere(s, k) == TRUE

\* The \b that ends the pattern, at offset k of s.
TrailingBoundary(s, k) == WordBoundary(s, k)

\* The offset at which a match of the pattern that starts at offset k ends,
\* or -1: the look-behind, '#', then the longest run of three or more digits
\* that the engine, giving digits back one at a time, finds followed by \b.
MatchEnd(s, k) ==
    IF ~(LookBehind(s, k) /\ k < Len(s) /\ s[k + 1] = "#") THEN -1
    ELSE LET run  == DigitRun(s, k + 1)
             fits == { n \in 3..run : TrailingBoundary(s, k + 1 + n) }
         IN  IF fits = {} THEN -1
             ELSE k + 1 + (CHOOSE n \in fits : \A m \in fits : m <= n)

\* regex.lastIndex after a match that starts at index and ends at end.
LastIndexAfter(index, end) == end

\* Mutant of Exec: the regular expression has no g flag, so that exec
\* searches from the start of the text and leaves lastIndex alone.
ExecNotGlobal(s, from) ==
    LET starts == { k \in 0..(Len(s) - 1) : MatchEnd(s, k) # -1 }
    IN  IF starts = {} THEN [found |-> FALSE, lastIndex |-> 0]
        ELSE LET k == CHOOSE x \in starts : \A y \in starts : x <= y
             IN  [found |-> TRUE, index |-> k,
                  group |-> SubSeq(s, k + 2, MatchEnd(s, k)),
                  lastIndex |-> from]

\* regex.exec(input) with regex.lastIndex = from: the first match at or after
\* from, with the lastIndex the call leaves, or no match and lastIndex 0.
Exec(s, from) ==
    LET starts == { k \in from..(Len(s) - 1) : MatchEnd(s, k) # -1 }
    IN  IF starts = {} THEN [found |-> FALSE, lastIndex |-> 0]
        ELSE LET k == CHOOSE x \in starts : \A y \in starts : x <= y
             IN  [found |-> TRUE, index |-> k,
                  group |-> SubSeq(s, k + 2, MatchEnd(s, k)),
                  lastIndex |-> LastIndexAfter(k, MatchEnd(s, k))]

\* Mutant of AlreadySeen: no number is taken for a duplicate.
AlreadySeenNever(set, num) == FALSE

\* seen.has(num)
AlreadySeen(set, num) == num \in set

\* One pass of `while ((match = regex.exec(input)) !== null)`, from the loop
\* state st = [lastIndex, seen, results, done].
ExtractPass(s, st) ==
    LET match == Exec(s, st.lastIndex)
    IN  IF ~match.found
           THEN [st EXCEPT !.lastIndex = match.lastIndex, !.done = TRUE]
        ELSE LET cursor == IF match.index = match.lastIndex
                              THEN match.lastIndex + 1 ELSE match.lastIndex
                 num    == ParseDigits(match.group)
             IN  IF AlreadySeen(st.seen, num)
                    THEN [st EXCEPT !.lastIndex = cursor]
                 ELSE [st EXCEPT !.lastIndex = cursor,
                                 !.seen = st.seen \cup { num },
                                 !.results = Append(st.results, num)]

\* The loop state in the variables.
LoopState ==
    [lastIndex |-> lastIndex, seen |-> seen, results |-> results, done |-> FALSE]

\* A pass of the loop in which exec finds a match.
ExtractMatch ==
    /\ xpc = "scan"
    /\ Exec(input, lastIndex).found
    /\ LET st == ExtractPass(input, LoopState)
       IN  /\ lastIndex' = st.lastIndex
           /\ seen' = st.seen
           /\ results' = st.results
    /\ matchedAt' = Append(matchedAt, Exec(input, lastIndex).index)
    /\ UNCHANGED << xpc, input >>

\* exec finds no match: the loop ends and results is returned.
ExtractReturn ==
    /\ xpc = "scan"
    /\ ~Exec(input, lastIndex).found
    /\ LET st == ExtractPass(input, LoopState)
       IN  /\ lastIndex' = st.lastIndex
           /\ seen' = st.seen
           /\ results' = st.results
    /\ xpc' = "done"
    /\ UNCHANGED << input, matchedAt >>

\* extractIssueNumbers has been called with a text.
InitExtract ==
    /\ WatcherInit
    /\ xpc = "scan"
    /\ input \in Texts
    /\ lastIndex = 0
    /\ seen = {}
    /\ results = << >>
    /\ matchedAt = << >>
    /\ HandlerIdle
    /\ RenderIdle
    /\ ComposeIdle

watcherVars == << programVars, pollObservers, logObservers >>

NextExtract ==
    \/ ExtractMatch /\ UNCHANGED << watcherVars, handlerVars, renderVars, composeVars >>
    \/ ExtractReturn /\ UNCHANGED << watcherVars, handlerVars, renderVars, composeVars >>

SpecExtract == InitExtract /\ [][NextExtract]_vars

\* ========================================================= messageHandler
\* const messageType: MessageType = "html".
messageType == "html"

\* The user id client.getUserId() resolves to, and the senders of messages.
BotId == "@bot"
Senders == { BotId, "@user" }

\* Message bodies: no text, text without a reference, one reference, a
\* reference to number 0, and several references with a repetition.
MessageBodies ==
    { << >>,
      <<"a">>,
      <<"#", "1", "2", " ", "#", "1", "2", "3">>,
      <<"#", "0", "0", "0">>,
      <<"#", "4", "5", "6", " ", "#", "1", "2", "3">>,
      <<"#", "1", "2", "3", " ", "#", "4", "5", "6", " ", "#", "0", "1", "2", "3">>,
      <<"#", "4", "5", "6", "\n", "#", "0", "0", "0", " ", "#", "1", "2", "3">>,
      <<"#", "7", "8", "9", " ", "#", "1", "2", "3", " ", "#", "4", "5", "6">> }

\* The room events: without content, or with a sender and a body.
NoRoomEvent == [content |-> FALSE, sender |-> Absent, body |-> << >>]
RoomEvents ==
    { [content |-> FALSE, sender |-> s, body |-> << >>] : s \in Senders }
        \cup [content : { TRUE }, sender : Senders, body : MessageBodies]

\* The characters of the texts the forge supplies: a letter, a space and
\* characters that mean something in html.
ForgeChars == { "a", " ", "<", "\"", "&" }
ForgeTexts == UNION { [1..n -> ForgeChars] : n \in 0..MaxTextLen }

\* An html_url: the origin, as one piece, and the characters after it.
Origin == "https://github.com/"
ForgeUrls == { << Origin >> \o cs : cs \in ForgeTexts }

\* c.charCodeAt(0)
charCodeAt(c) ==
    CASE c = " " -> 32 [] c = "\"" -> 34 [] c = "&" -> 38 [] c = "<" -> 60
      [] c = ">" -> 62 [] c = "a" -> 97

\* The decimal digits of n, as "&#" + n does the conversion to a string.
RECURSIVE Decimal(_)
Decimal(n) ==
    LET digit == CHOOSE c \in DigitChars : DigitValue(c) = n % 10
    IN  IF n < 10 THEN << digit >> ELSE Decimal(n \div 10) \o << digit >>

\* [0-9A-Za-z ] of the pattern of escape.
PlainChars == DigitChars \cup { "a", "b", "c", " " }

\* escape(s): every other character becomes "&#" + c.charCodeAt(0) + ";".
escape(s) ==
    Flatten([i \in DOMAIN s |->
                IF s[i] \in PlainChars THEN << s[i] >>
                ELSE << "&", "#" >> \o Decimal(charCodeAt(s[i])) \o << ";" >>])

\* new URL(html_url) as a string: spaces at the end are dropped, and a
\* space, a double quote and angle brackets in the path are percent-encoded.
RECURSIVE TrimEnd(_)
TrimEnd(cs) ==
    IF Len(cs) > 0 /\ cs[Len(cs)] = " " THEN TrimEnd(SubSeq(cs, 1, Len(cs) - 1))
    ELSE cs

PercentEncode(c) ==
    CASE c = " " -> << "%", "2", "0" >>
      [] c = "\"" -> << "%", "2", "2" >>
      [] c = "<" -> << "%", "3", "C" >>
      [] c = ">" -> << "%", "3", "E" >>
      [] OTHER -> << c >>

UrlHref(u) ==
    LET path == TrimEnd(Tail(u))
    IN  << Head(u) >> \o Flatten([i \in DOMAIN path |-> PercentEncode(path[i])])

\* The data of an issue as api.rest.issues.get returns it.
StateReasons == { "completed", "not_planned", "reopened", Absent }
IssueData ==
    [pull_request : BOOLEAN, state : { "open", "closed" },
     state_reason : StateReasons, locked : BOOLEAN,
     title : { << "a", "<" >> }, html_url : { << Origin >> }]

\* The statuses with which api.rest.issues.get fails.
LookupErrors == { 404, 500 }

\* No call of mapGitHubIssue has got an answer.
NoIssue == [kind |-> "none"]

\* No text has been handed to sendHtmlNotice.
NoReply == << >>

\* extractIssueNumbers(input) as a function: the loop run to its end.
RECURSIVE ExtractLoop(_, _)
ExtractLoop(s, st) ==
    IF st.done THEN st.results ELSE ExtractLoop(s, ExtractPass(s, st))

extractIssueNumbers(s) ==
    ExtractLoop(s, [lastIndex |-> 0, seen |-> {}, results |-> << >>, done |-> FALSE])

\* message.sender === await this.client.getUserId()
IsOwnMessageNever(sender, id) == FALSE

IsOwnMessage(sender, id) == sender = id

\* The glyphs, by their names: "check_mark_button" is the white check mark
\* on green, "check_box_with_check" the ballot box with check.
EmojiLockedFirst(data) ==
    IF data.pull_request
       THEN IF data.state_reason = "completed" THEN "check_mark_button"
            ELSE IF data.state_reason = "not_planned" THEN "prohibited"
            ELSE "hammer_and_wrench"
    ELSE IF data.locked THEN "locked"
    ELSE IF data.state_reason = "completed" THEN "check_box_with_check"
    ELSE IF data.state_reason = "not_planned" THEN "cross_mark"
    ELSE IF data.state = "open" THEN "white_large_square"
    ELSE "check_mark_button"

Emoji(data) ==
    IF data.pull_request
       THEN IF data.state_reason = "completed" THEN "check_mark_button"
            ELSE IF data.state_reason = "not_planned" THEN "prohibited"
            ELSE "hammer_and_wrench"
    ELSE IF data.state_reason = "completed" THEN "check_box_with_check"
    ELSE IF data.state_reason = "not_planned" THEN "cross_mark"
    ELSE IF data.state = "open" THEN "white_large_square"
    ELSE IF data.locked THEN "locked"
    ELSE "check_mark_button"

\* The GitHubLink mapGitHubIssue returns for the issue data of a number.
GitHubLinkOf(number, data) ==
    [number |-> number,
     title  |-> data.title,
     url    |-> UrlHref(data.html_url),
     type   |-> IF data.pull_request THEN "PullRequest" ELSE "Issue",
     state  |-> data.state,
     emoji  |-> Emoji(data)]

\* githubLinks.push(linkResult)
PushLinkFirst(links, link) == << link >> \o links

PushLink(links, link) == Append(links, link)

\* githubLinks.length === 0
NothingToSendNever(links) == FALSE

NothingToSend(links) == Len(links) = 0

\* The line of a link, as the sequence of the pieces the template joins.
LinkLine(mt, ghLink) ==
    LET issueType == IF ghLink.type = "Issue" THEN "Issue" ELSE "Pull Request"
    IN  IF mt = "html"
           THEN << "<a href=\"" >> \o ghLink.url
                   \o << "\">", issueType, " #", ToString(ghLink.number), ": ",
                         ghLink.emoji, " " >>
                   \o escape(ghLink.title) \o << "</a>" >>
        ELSE << issueType, " ", ToString(ghLink.number), ": ", ghLink.emoji, " " >>
                \o ghLink.title \o << ": " >> \o ghLink.url

\* The line of an announced event, as monitorGitHub puts it together.
EventLine(mt, event) ==
    LET what == IF event.type = "IssuesEvent" THEN " issue #" ELSE " pull request #"
    IN  IF mt = "html"
           THEN << "@" >> \o escape(event.login)
                   \o << " ", event.action, what, ToString(event.number), ": ",
                         "<a href=\"" >>
                   \o event.html_url \o << "\">" >> \o escape(event.title)
                   \o << "</a>" >>
        ELSE << "@" >> \o event.login
                \o << " ", event.action, what, ToString(event.number), ": " >>
                \o event.title

\* lines.join(sep)
RECURSIVE Join(_, _)
Join(ls, sep) ==
    IF Len(ls) = 0 THEN << >>
    ELSE IF Len(ls) = 1 THEN ls[1]
    ELSE ls[1] \o sep \o Join(Tail(ls), sep)

\* makeList(messageType, lines)
makeListAlwaysList(mt, ls) ==
    IF mt = "html"
       THEN << "<ul>", "<li>" >> \o Join(ls, << "</li>", "<li>" >>)
               \o << "</li>", "</ul>" >>
    ELSE << "* " >> \o Join(ls, << "\n", "* " >>)

makeList(mt, ls) ==
    IF mt = "html"
       THEN IF Len(ls) = 1 THEN ls[1]
            ELSE << "<ul>", "<li>" >> \o Join(ls, << "</li>", "<li>" >>)
                    \o << "</li>", "</ul>" >>
    ELSE IF Len(ls) = 1 THEN ls[1]
         ELSE << "* " >> \o Join(ls, << "\n", "* " >>)

\* A room.message event arrives: messageHandler runs up to
\* await this.client.getUserId(), or returns for an event without content.
MessageHandler(ev) ==
    /\ hpc \in { "idle", "done" }
    /\ roomEvent' = ev
    /\ hpc' = IF ev.content THEN "whoami" ELSE "done"
    /\ issueNumbers' = << >>
    /\ idx' = 0
    /\ githubLinks' = << >>
    /\ reply' = NoReply
    /\ issue' = NoIssue
    /\ outcomes' = << >>

\* getUserId has resolved: the bot's own message is dropped; of any other
\* message linkGitHubIssues extracts the numbers and returns if there are
\* none, else enters the for loop.
GetUserIdResolves ==
    /\ hpc = "whoami"
    /\ LET numbers == IF IsOwnMessage(roomEvent.sender, BotId)
                         THEN << >>
                      ELSE extractIssueNumbers(roomEvent.body)
       IN  /\ issueNumbers' = numbers
           /\ idx' = IF Len(numbers) = 0 THEN 0 ELSE 1
           /\ hpc' = IF Len(numbers) = 0 THEN "done" ELSE "lookup"
    /\ UNCHANGED << roomEvent, githubLinks, reply, issue, outcomes >>

\* The for loop goes on with the next number or, after the last one, returns
\* if there is no link and else renders the lines and calls sendHtmlNotice.
EndOfPass(links) ==
    IF idx < Len(issueNumbers)
       THEN /\ idx' = idx + 1
            /\ hpc' = "lookup"
            /\ reply' = reply
    ELSE /\ idx' = idx
         /\ IF NothingToSend(links)
               THEN hpc' = "done" /\ reply' = reply
            ELSE /\ hpc' = "send"
                 /\ reply' = makeList(messageType,
                                [i \in DOMAIN links |-> LinkLine(messageType, links[i])])

\* mapGitHubIssue(number) with number <= 0 returns undefined at once.
MapIssueSkipped ==
    /\ hpc = "lookup"
    /\ issueNumbers[idx] <= 0
    /\ issue' = NoIssue
    /\ outcomes' = Append(outcomes,
                     [number |-> issueNumbers[idx], requested |-> FALSE, status |-> 0])
    /\ EndOfPass(githubLinks)
    /\ UNCHANGED << roomEvent, issueNumbers, githubLinks >>

\* api.rest.issues.get resolves with data: the link is pushed.
MapIssueFound(data) ==
    /\ hpc = "lookup"
    /\ issueNumbers[idx] > 0
    /\ issue' = [kind |-> "ok", data |-> data]
    /\ outcomes' = Append(outcomes,
                     [number |-> issueNumbers[idx], requested |-> TRUE, status |-> 200])
    /\ githubLinks' = PushLink(githubLinks, GitHubLinkOf(issueNumbers[idx], data))
    /\ EndOfPass(githubLinks')
    /\ UNCHANGED << roomEvent, issueNumbers >>

\* api.rest.issues.get rejects: the catch returns undefined for a 404 and
\* for any other error, and the loop continues.
MapIssueFails(status) ==
    /\ hpc = "lookup"
    /\ issueNumbers[idx] > 0
    /\ issue' = [kind |-> "error", status |-> status]
    /\ outcomes' = Append(outcomes,
                     [number |-> issueNumbers[idx], requested |-> TRUE, status |-> status])
    /\ EndOfPass(githubLinks)
    /\ UNCHANGED << roomEvent, issueNumbers, githubLinks >>

\* sendHtmlNotice resolves and linkGitHubIssues returns.
NoticeResolves ==
    /\ hpc = "send"
    /\ hpc' = "done"
    /\ UNCHANGED << roomEvent, issueNumbers, idx, githubLinks, reply, issue, outcomes >>

\* sendHtmlNotice rejects and the rejection leaves the handler.
NoticeRejects ==
    /\ hpc = "send"
    /\ hpc' = "done"
    /\ UNCHANGED << roomEvent, issueNumbers, idx, githubLinks, reply, issue, outcomes >>

\* The message handler, with the watcher, the extractor and makeList at rest.
NextMsg ==
    \/ /\ hpc \in { "idle", "done" }
       /\ \E ev \in RoomEvents : MessageHandler(ev)
       /\ UNCHANGED << watcherVars, extractVars, renderVars, composeVars >>
    \/ GetUserIdResolves /\ UNCHANGED << watcherVars, extractVars, renderVars, composeVars >>
    \/ MapIssueSkipped /\ UNCHANGED << watcherVars, extractVars, renderVars, composeVars >>
    \/ /\ hpc = "lookup"
       /\ \E data \in IssueData : MapIssueFound(data)
       /\ UNCHANGED << watcherVars, extractVars, renderVars, composeVars >>
    \/ \E status \in LookupErrors :
          MapIssueFails(status) /\ UNCHANGED << watcherVars, extractVars, renderVars, composeVars >>
    \/ NoticeResolves /\ UNCHANGED << watcherVars, extractVars, renderVars, composeVars >>
    \/ NoticeRejects /\ UNCHANGED << watcherVars, extractVars, renderVars, composeVars >>

SpecMsg == Init /\ [][NextMsg]_vars

\* =============================================================== makeList
\* The styles, and the lines makeList is called with: one line or more, each
\* a text without markup.
MessageTypes == { "html", "text" }
LineTexts == UNION { [1..n -> { "a", "b" }] : n \in 0..MaxLineLen }
LineLists == UNION { [1..n -> LineTexts] : n \in 1..MaxLines }

\* makeList has been called.
InitRender ==
    /\ WatcherInit
    /\ ExtractIdle
    /\ HandlerIdle
    /\ rpc = "called"
    /\ style \in MessageTypes
    /\ listLines \in LineLists
    /\ rendered = << >>
    /\ ComposeIdle

\* makeList returns.
Render ==
    /\ rpc = "called"
    /\ rendered' = makeList(style, listLines)
    /\ rpc' = "returned"
    /\ UNCHANGED << style, listLines >>

NextRender ==
    Render /\ UNCHANGED << watcherVars, extractVars, handlerVars, composeVars >>

SpecRender == InitRender /\ [][NextRender]_vars

\* ========================================================== line templates
\* A line is put together from texts of the forge, by linkGitHubIssues for a
\* link or by monitorGitHub for an event.
InitCompose ==
    /\ WatcherInit
    /\ ExtractIdle
    /\ HandlerIdle
    /\ RenderIdle
    /\ epc = "called"
    /\ via \in { "link", "watcher" }
    /\ forge \in [login : ForgeTexts, title : ForgeTexts, html_url : ForgeUrls]
    /\ composed = << >>

\* linkGitHubIssues: the line of the link mapGitHubIssue made of the data.
ComposeLinkLine ==
    /\ epc = "called"
    /\ via = "link"
    /\ composed' = LinkLine(messageType,
                      GitHubLinkOf(123,
                          [pull_request |-> FALSE, state |-> "open",
                           state_reason |-> Absent, locked |-> FALSE,
                           title |-> forge.title, html_url |-> forge.html_url]))
    /\ epc' = "returned"
    /\ UNCHANGED << via, forge >>

\* monitorGitHub: the line of an opened issue.
ComposeEventLine ==
    /\ epc = "called"
    /\ via = "watcher"
    /\ composed' = EventLine(messageType,
                      [type |-> "IssuesEvent", action |-> "opened",
                       login |-> forge.login, number |-> 123,
                       title |-> forge.title, html_url |-> forge.html_url])
    /\ epc' = "returned"
    /\ UNCHANGED << via, forge >>

NextCompose ==
    \/ ComposeLinkLine /\ UNCHANGED << watcherVars, extractVars, handlerVars, renderVars >>
    \/ ComposeEventLine /\ UNCHANGED << watcherVars, extractVars, handlerVars, renderVars >>

SpecCompose == InitCompose /\ [][NextCompose]_vars

\* ======================================================== the two senders
\* The watcher path and the issue-link path, which share no variable, each
\* followed on its own from the start of the program.
NextSends ==
    \/ hpc = "idle" /\ NextLog
    \/ WatcherInit /\ NextMsg

SpecSends == Init /\ [][NextSends]_vars

\* ------------------------------------------------------------------ claims
\* The step of this transition is the answer to a fetch.
FetchStep == pc = "fetch" /\ pc' # "fetch"

Timestamps(data) == { data[i].created_at : i \in DOMAIN data }

MaxOf(S) == CHOOSE m \in S : \A x \in S : x <= m

\* An event is new relative to watermark w and of an interested type.
Wanted(e, w) ==
    /\ e.created_at > w
    /\ e.type \in { "IssuesEvent", "PullRequestEvent" }

\* C1: the watermark (epoch and latest) never decreases from one step to the
\* next, whatever the fetch is answered with.
WatermarkMonotone == [][epoch' >= epoch /\ latest' >= latest]_vars

\* C1 witness: a successful fetch returned only events older than the
\* watermark, which stayed where it was.
WatermarkMonotoneWitness ==
    /\ events.kind = "ok"
    /\ Len(events.data) = MaxPage
    /\ \A t \in Timestamps(events.data) : t < epochAtStart
    /\ epoch = epochAtStart

\* C2: no event is yielded twice: the batch of an iteration holds no event at
\* or below the watermark of the start of the iteration, and no event that an
\* earlier batch held.
NoDuplicate ==
    /\ [](events.kind = "ok" =>
            \A e \in Range(batch) : e.created_at > epochAtStart)
    /\ [][FetchStep /\ pc' = "yield" => Range(batch') \cap emitted = {}]_vars

\* C2 witness: the feed returned an event of an earlier batch again, next to
\* a new event; the batch that is yielded holds the new event only.
NoDuplicateWitness ==
    /\ pc = "yield"
    /\ \E e \in Range(events.data) : e \in emitted /\ e \notin Range(batch)

\* C3 as stated: every watched event after the start epoch that a successful
\* fetch returned has been yielded when the iteration that fetched it ends
\* (the watermark is then at or above its timestamp, so that no later
\* iteration can yield it).
NoEventLost == missed = {}

\* C3 as amended: every watched event that a successful fetch returned with a
\* timestamp above the watermark of the start of the iteration is yielded.
DueDelivered == due \subseteq emitted

\* C3 witness: one event was delivered, and another one, fetched after the
\* watermark had passed its timestamp, was not.
DueDeliveredWitness ==
    /\ \E e \in due : e \in emitted
    /\ \E e \in missed : e \notin due /\ e.created_at <= epoch

\* C4: an iteration answered with 304 leaves the watermark unchanged and
\* yields no batch.
UnchangedIsNoOp ==
    events.kind = "unchanged" =>
        /\ epoch = epochAtStart
        /\ latest = epochAtStart
        /\ batch = << >>
        /\ pc = "delay"

\* C4 witness: a 304 answer to a fetch that sent a caching token, after the
\* watermark had advanced.
UnchangedIsNoOpWitness ==
    /\ events.kind = "unchanged"
    /\ events.ifNoneMatch # Absent
    /\ epoch > StartEpoch

\* C5: a failed fetch yields nothing, leaves the watermark and the caching
\* token unchanged, and leaves the loop at the delay of its next iteration.
FailureIsNotFatal ==
    events.kind = "error" =>
        /\ pc = "delay"
        /\ ENABLED Sleep
        /\ batch = << >>
        /\ epoch = epochAtStart
        /\ latest = epochAtStart
        /\ etag = events.ifNoneMatch

\* C5 witness: two fetches in a row have failed, after a successful one.
FailureIsNotFatalWitness ==
    /\ events.kind = "error"
    /\ failures >= 2
    /\ everOk

\* C6: the caching token is absent before the first successful fetch and is
\* afterwards the etag of the most recent successful response; each fetch
\* sends it as its if-none-match header.
CachingToken ==
    /\ [](etag = IF everOk THEN okEtag ELSE Absent)
    /\ [][FetchStep =>
            events'.ifNoneMatch = IF everOk THEN okEtag ELSE Absent]_vars

\* C6 witness: a fetch sent the etag of the last successful response and was
\* answered with 304, which left the token in place.
CachingTokenWitness ==
    /\ events.kind = "unchanged"
    /\ events.ifNoneMatch = "W/2"
    /\ etag = "W/2"

\* C7 as stated: the delay before the first fetch is 0 seconds; the delay
\* before every later fetch is the interval the server advised in its most
\* recent successful response, or 60 seconds when it advised none.
PacedAfterFirstFetch ==
    pc = "fetch" =>
        slept = IF ~fetched THEN 0
                ELSE IF advice = Absent \/ advice = << >> THEN 60
                ELSE parseInt(advice)

\* C8: the batch of a successful iteration is the subsequence of the page,
\* in page order, of the watched events above the watermark of the start of
\* the iteration.
BatchIsFilteredPage ==
    events.kind = "ok" =>
        batch = SelectSeq(events.data, LAMBDA e : Wanted(e, epochAtStart))

\* C8 witness: a page in descending order with an event at the watermark
\* and a watched event above it.
BatchIsFilteredPageWitness ==
    /\ events.kind = "ok"
    /\ epochAtStart > StartEpoch
    /\ Len(events.data) = 2
    /\ events.data[1].created_at > events.data[2].created_at
    /\ events.data[2].created_at = epochAtStart
    /\ batch = << events.data[1] >>

\* C9: after a successful iteration the watermark is the maximum of the
\* watermark before it and the timestamps of all events of the page.
WatermarkIsMaximum ==
    events.kind = "ok" =>
        /\ epoch = MaxOf({ epochAtStart } \cup Timestamps(events.data))
        /\ latest = epoch

\* C9 witness: the watermark advanced to the timestamp of an event that is
\* not of an interested type, listed before older events.
WatermarkIsMaximumWitness ==
    /\ events.kind = "ok"
    /\ Len(events.data) = 2
    /\ events.data[1].type = "WatchEvent"
    /\ events.data[1].created_at > events.data[2].created_at
    /\ events.data[2].created_at > epochAtStart
    /\ epoch = events.data[1].created_at

\* C10: a batch is yielded exactly when the fetch succeeded and an event of
\* the page is new and of an interested type; a yielded batch is not empty.
YieldsIffWanted ==
    /\ [](pc = "yield" => Len(batch) > 0)
    /\ [][FetchStep =>
            (pc' = "yield" <=>
                /\ events'.kind = "ok"
                /\ \E e \in Range(events'.data) : Wanted(e, epoch))]_vars

\* C10 witness: a successful fetch of a non-empty page yielded nothing.
YieldsIffWantedWitness ==
    /\ events.kind = "ok"
    /\ Len(events.data) = MaxPage
    /\ epoch > epochAtStart
    /\ batch = << >>
    /\ pc = "delay"

\* The timestamps of sequence b do not decrease.
Chronological(b) ==
    \A i, j \in DOMAIN b : i < j => b[i].created_at <= b[j].created_at

\* C11 as stated: every yielded batch lists its events in chronological
\* order.
BatchChronological == pc = "yield" => Chronological(batch)

\* C11 as amended: the events of a batch are in the relative order the page
\* has them in, so that the batch of a chronological page is chronological.
BatchInPageOrder ==
    events.kind = "ok" =>
        /\ \A i, j \in DOMAIN batch :
              i < j => \E p, q \in DOMAIN events.data :
                          /\ p < q
                          /\ events.data[p] = batch[i]
                          /\ events.data[q] = batch[j]
        /\ Chronological(events.data) => Chronological(batch)

\* C11 witness: a newest-first page gave a newest-first batch.
BatchInPageOrderWitness ==
    /\ pc = "yield"
    /\ Len(batch) = 2
    /\ batch = events.data
    /\ batch[1].created_at > batch[2].created_at

\* A reference starts at offset k of s: a '#' at the start of the text or
\* after a space, a newline or a word character, then three or more digits,
\* then the end of the text or a character that is not a word character.
IsReference(s, k) ==
    /\ k < Len(s)
    /\ s[k + 1] = "#"
    /\ k = 0 \/ s[k] \in { " ", "\n" } \/ s[k] \in WordChars
    /\ \E n \in 3..(Len(s) - k - 1) :
          /\ \A i \in 1..n : s[k + 1 + i] \in DigitChars
          /\ k + 1 + n = Len(s) \/ s[k + 2 + n] \notin WordChars

References(s) == { k \in 0..(Len(s) - 1) : IsReference(s, k) }

\* The number the reference at offset k of s names.
ReferenceNumber(s, k) == ParseDigits(SubSeq(s, k + 2, k + 1 + DigitRun(s, k + 1)))

\* The offset of the first reference of s that names n.
FirstReference(s, n) ==
    CHOOSE k \in References(s) :
        /\ ReferenceNumber(s, k) = n
        /\ \A j \in References(s) : ReferenceNumber(s, j) = n => k <= j

\* The positions of S in increasing order.
Ascending(S) ==
    [i \in 1..Cardinality(S) |-> CHOOSE p \in S : Cardinality({ q \in S : q < p }) = i - 1]

\* The pieces of out between each token open and the next token close (or
\* the end of out).
ItemsOf(out, open, close) ==
    LET starts == Ascending({ p \in DOMAIN out : out[p] = open })
        End(p) == IF \E q \in (p + 1)..Len(out) : out[q] = close
                     THEN CHOOSE q \in (p + 1)..Len(out) :
                             /\ out[q] = close
                             /\ \A r \in (p + 1)..(q - 1) : out[r] # close
                  ELSE Len(out) + 1
    IN  [i \in DOMAIN starts |-> SubSeq(out, starts[i] + 1, End(starts[i]) - 1)]

\* The lines a reader finds in a rendered text: the items of the list, or
\* the whole text when it is no list.
ListItems(mt, out) ==
    IF mt = "html"
       THEN IF Len(out) > 0 /\ out[1] = "<ul>"
               THEN ItemsOf(out, "<li>", "</li>") ELSE << out >>
    ELSE IF Len(out) > 0 /\ out[1] = "* "
            THEN ItemsOf(out, "* ", "\n") ELSE << out >>

\* The issue number an html line shows after " #".
LineNumber(line) ==
    CHOOSE n \in Range(issueNumbers) : line[5] = " #" /\ line[6] = ToString(n)

ReplyNumbers ==
    LET its == ListItems(messageType, reply)
    IN  [i \in DOMAIN its |-> LineNumber(its[i])]

Resolved(o) == o.status = 200

ResolvedNumbers ==
    LET ok == SelectSeq(outcomes, Resolved)
    IN  [i \in DOMAIN ok |-> ok[i].number]

\* The for loop of linkGitHubIssues has been left.
LoopLeft == hpc \in { "send", "done" } /\ issueNumbers # << >>

\* C12: a message whose sender is the bot's own user id causes no call of
\* mapGitHubIssue and no send, whatever its body.
OwnMessageIgnored ==
    roomEvent.sender = BotId =>
        /\ outcomes = << >>
        /\ issueNumbers = << >>
        /\ reply = NoReply
        /\ hpc \in { "whoami", "done" }

\* C12 witness: the handler has returned on a message of the bot that has
\* references in its body.
OwnMessageIgnoredWitness ==
    /\ hpc = "done"
    /\ roomEvent.content
    /\ roomEvent.sender = BotId
    /\ Cardinality(References(roomEvent.body)) >= 2

\* C13: the lines of the reply are in the order in which their references
\* first occur in the message body.
ReplyInReferenceOrder ==
    reply # NoReply =>
        \A i, j \in DOMAIN ReplyNumbers :
            i < j => FirstReference(roomEvent.body, ReplyNumbers[i])
                        < FirstReference(roomEvent.body, ReplyNumbers[j])

\* C13 witness: a reply of two lines to a body in which the first number is
\* referred to again after the second.
ReplyInReferenceOrderWitness ==
    /\ hpc = "send"
    /\ Cardinality(References(roomEvent.body)) = 3
    /\ Len(issueNumbers) = 2
    /\ Len(ReplyNumbers) = 2

\* C14: a failed lookup (404 or another error) leaves the handler running:
\* every number of the message gets its call, the links are those of the
\* numbers that resolved, the reply has their lines and nothing else, and
\* nothing is sent when no number resolved.
FailedLookupsOmitted ==
    /\ \A i \in DOMAIN outcomes : outcomes[i].number = issueNumbers[i]
    /\ hpc = "lookup" => Len(outcomes) = idx - 1
    /\ LoopLeft => Len(outcomes) = Len(issueNumbers)
    /\ [i \in DOMAIN githubLinks |-> githubLinks[i].number] = ResolvedNumbers
    /\ hpc = "send" => reply # NoReply
    /\ reply # NoReply =>
          /\ LoopLeft
          /\ ResolvedNumbers # << >>
          /\ ReplyNumbers = ResolvedNumbers
    /\ LoopLeft /\ ResolvedNumbers = << >> => hpc = "done" /\ reply = NoReply

\* C14 witness: of three numbers the first was not found, the second failed
\* otherwise, and the third is reported.
FailedLookupsOmittedWitness ==
    /\ hpc = "send"
    /\ Len(outcomes) = 3
    /\ outcomes[1].status = 404
    /\ outcomes[2].status = 500
    /\ outcomes[3].status = 200
    /\ ReplyNumbers = << outcomes[3].number >>

\* What a glyph says.
GlyphMeaning(emoji) ==
    CASE emoji \in { "check_mark_button", "check_box_with_check" } -> "done"
      [] emoji \in { "prohibited", "cross_mark" } -> "rejected"
      [] emoji = "hammer_and_wrench" -> "in-progress"
      [] emoji = "white_large_square" -> "pending"
      [] emoji = "locked" -> "locked"

\* C15: the link of a resolved number has the kind and the glyph of the
\* first row of the table that matches the issue data.
GlyphByPrecedence ==
    issue.kind = "ok" =>
        LET d      == issue.data
            link   == githubLinks[Len(githubLinks)]
            glyph  == GlyphMeaning(link.emoji)
            reason == d.state_reason
            noReason == reason \notin { "completed", "not_planned" }
        IN  /\ link.type = IF d.pull_request THEN "PullRequest" ELSE "Issue"
            /\ d.pull_request /\ reason = "completed" => glyph = "done"
            /\ d.pull_request /\ reason = "not_planned" => glyph = "rejected"
            /\ d.pull_request /\ noReason => glyph = "in-progress"
            /\ ~d.pull_request /\ reason = "completed" => glyph = "done"
            /\ ~d.pull_request /\ reason = "not_planned" => glyph = "rejected"
            /\ ~d.pull_request /\ noReason /\ d.state = "open" => glyph = "pending"
            /\ ~d.pull_request /\ noReason /\ d.state = "closed" /\ d.locked
                  => glyph = "locked"
            /\ ~d.pull_request /\ noReason /\ d.state = "closed" /\ ~d.locked
                  => glyph = "done"

\* C15 witness: a locked issue that is completed got the done glyph.
GlyphByPrecedenceWitness ==
    /\ issue.kind = "ok"
    /\ ~issue.data.pull_request
    /\ issue.data.locked
    /\ issue.data.state = "closed"
    /\ issue.data.state_reason = "completed"
    /\ githubLinks[Len(githubLinks)].emoji = "check_box_with_check"

\* The number of characters of the lines ls.
RECURSIVE TotalLen(_)
TotalLen(ls) == IF Len(ls) = 0 THEN 0 ELSE Len(ls[1]) + TotalLen(Tail(ls))

\* C20: makeList returns a single line as it is; two or more lines come
\* back as the items of a <ul> list in html style and as lines that start
\* with an asterisk in plain style, each line once, in the order given, with
\* nothing but the list markup around them.
RenderKeepsLines ==
    rpc = "returned" =>
        LET n == Len(listLines)
        IN  /\ n = 1 => rendered = listLines[1]
            /\ n >= 2 =>
                  /\ ListItems(style, rendered) = listLines
                  /\ style = "html" =>
                        /\ rendered[1] = "<ul>"
                        /\ rendered[Len(rendered)] = "</ul>"
                        /\ Len(rendered) = TotalLen(listLines) + 2 * n + 2
                  /\ style = "text" =>
                        /\ rendered[1] = "* "
                        /\ \A p \in DOMAIN rendered :
                              rendered[p] = "\n" => rendered[p + 1] = "* "
                        /\ Len(rendered) = TotalLen(listLines) + 2 * n - 1

\* C20 witness: a plain list of three lines of which two are the same and
\* one is empty.
RenderKeepsLinesWitness ==
    /\ rpc = "returned"
    /\ style = "text"
    /\ Len(listLines) = 3
    /\ listLines[1] = listLines[3]
    /\ listLines[2] = << >>
    /\ listLines[1] # << >>

\* The characters with which a text can open or close a tag or end the
\* value of an attribute.  The pieces of the templates are longer than one
\* character, so that such a character in a line is one of a forge text.
MarkupChars == { "<", ">", "\"" }

\* C21 as stated: no text the forge supplies adds markup to a line, in the
\* issue-link path and in the event-watcher path.
ForgeTextAddsNoMarkup ==
    epc = "returned" => \A k \in DOMAIN composed : composed[k] \notin MarkupChars

\* The part of C21 about the titles and user names: what escape returns has
\* plain characters and numeric character references only, and the lines
\* have the escaped title and login.
EscapedTextIsInert ==
    epc = "returned" =>
        /\ \A t \in { forge.title, forge.login } :
              LET out == escape(t)
              IN  \A k \in DOMAIN out :
                     \/ out[k] \in PlainChars
                     \/ out[k] = "&" /\ out[k + 1] = "#" /\ out[k + 2] \in DigitChars
                     \/ out[k] = "#" /\ out[k - 1] = "&"
                     \/ out[k] = ";" /\ out[k - 1] \in DigitChars
        /\ via = "link" => \A k \in DOMAIN composed : composed[k] \notin MarkupChars

\* C22 as stated: a send that fails does not end the watcher, which goes on
\* polling.
WatcherOutlivesFailedSend == pc # "done"

\* C23: the events of a batch that is yielded are strictly later than every
\* event of every batch yielded before it.
LaterBatchIsLater ==
    [][pc # "yield" /\ pc' = "yield" =>
          \A e \in Range(batch'), f \in emitted : e.created_at > f.created_at]_vars

\* C23 witness: a batch is yielded after an earlier batch with other events.
LaterBatchIsLaterWitness ==
    /\ pc = "yield"
    /\ Len(batch) = 2
    /\ emitted \ Range(batch) # {}

\* C24: while the consumer handles a yielded batch, up to the end of its
\* send, the watcher neither sleeps nor fetches; lines are out for sending
\* only then, and they are those of the batch last yielded; when the consumer
\* gets the batch the watermark, the caching token and the poll interval are
\* those of the response the batch came with.
LockStep ==
    /\ [][(pc = "yield" \/ pc = "send") =>
            /\ pc = "yield" => pc' \in { "send", "delay" }
            /\ pc = "send" => pc' \in { "delay", "done" }
            /\ UNCHANGED << epoch, latest, etag, pollInterval, batch, events,
                            slept >>]_vars
    /\ [](toSend # << >> =>
            pc = "send" /\ toSend = BatchLines(batch, 1, << >>))
    /\ [](pc \in { "yield", "send" } =>
            /\ events.kind = "ok"
            /\ epoch = latest
            /\ \A t \in Timestamps(events.data) : epoch >= t
            /\ etag = events.etag
            /\ pollInterval = IF events.poll = Absent \/ events.poll = << >>
                                  THEN 60 ELSE 30)

\* C24 witness: the send of a batch is awaited while the watermark, the
\* token and the interval have the values of its response.
LockStepWitness ==
    /\ pc = "send"
    /\ toSend # << >>
    /\ epoch = 2
    /\ epochAtStart = 1
    /\ etag = "W/2"
    /\ pollInterval = 30

\* An event monitorGitHub announces.
Announced(e) ==
    /\ e.type \in { "IssuesEvent", "PullRequestEvent" }
    /\ e.action \in { "opened", "closed", "reopened" }

\* C25: the lines monitorGitHub sends are those of the events of the batch
\* whose action is opened, closed or reopened, in the order of the batch; a
\* batch without such an event is not sent; and neither path renders or
\* sends a list of no lines.
AnnouncedOnly ==
    /\ [](toSend # << >> => toSend = SelectSeq(batch, Announced))
    /\ [](pc = "send" => Len(toSend) > 0)
    /\ [][(pc = "yield" /\ SelectSeq(batch, Announced) = << >>) =>
            pc' = "delay" /\ toSend' = << >>]_vars
    /\ [](hpc = "send" =>
            /\ Len(githubLinks) > 0
            /\ Len(ListItems(messageType, reply)) = Len(githubLinks))
    /\ [](reply # NoReply => Len(githubLinks) > 0)

\* C25 witness: of a batch of two events one is announced.
AnnouncedOnlyWitness ==
    /\ pc = "send"
    /\ Len(batch) = 2
    /\ Len(toSend) = 1
    /\ batch[1].action = "labeled"

\* C16: extractIssueNumbers returns the numbers of the references of the
\* text, each once, in the order of their first occurrence; a '#' with fewer
\* than three digits is no reference.
ExtractDistinctInOrder ==
    xpc = "done" =>
        /\ Range(results) = { ReferenceNumber(input, k) : k \in References(input) }
        /\ \A i, j \in DOMAIN results :
              i < j => /\ results[i] # results[j]
                       /\ FirstReference(input, results[i])
                            < FirstReference(input, results[j])

\* C16 witness: two references that are written differently name the same
\* number, which is returned once.
ExtractDistinctInOrderWitness ==
    /\ xpc = "done"
    /\ Cardinality(References(input)) = 2
    /\ Len(input) = 9
    /\ Len(results) = 1

\* C17 as stated: every number extractIssueNumbers returns is positive.
ExtractPositive == \A i \in DOMAIN results : results[i] > 0

\* C18: every pass of the loop that finds a match moves lastIndex strictly
\* forward and leaves it within the text, so the loop makes no more passes
\* than the text has characters and then returns; a text without references
\* returns the empty sequence.
ExtractTerminates ==
    [][/\ xpc = "scan" /\ xpc' = "scan" => lastIndex' > lastIndex
       /\ lastIndex' <= Len(input)
       /\ Len(matchedAt') <= Len(input)
       /\ xpc = "scan"
       /\ xpc' = "done" /\ References(input) = {} => results' = << >>]_vars

\* C18 witness: the loop has skipped a duplicate and goes on at the end of
\* the text.
ExtractTerminatesWitness ==
    /\ xpc = "scan"
    /\ Len(matchedAt) = 2
    /\ Len(results) = 1
    /\ lastIndex = Len(input)

\* C19: the matches of the pattern are at the references of the text.
MatchesAreReferences ==
    xpc = "done" => Range(matchedAt) = References(input)

\* C19 witness: a '#' at the start of the text with four digits and a letter
\* directly after them gives no match.
MatchesAreReferencesWitness ==
    /\ xpc = "done"
    /\ matchedAt = << >>
    /\ Len(input) >= 6
    /\ input[1] = "#"
    /\ DigitRun(input, 1) = 4
    /\ input[6] = "a"
====
